---- MODULE Spec2Model ----
(***************************************************************************)
(* Model of src/train_agent.py: PPOAgent.train, PPOAgent.update,           *)
(* PPOAgent.compute_advantages and PPOAgent.update_entropy_coef.           *)
(*                                                                         *)
(* Numbers.  Python floats are modelled as exact decimal fixed-point       *)
(* numbers: a sequence of NLimbs limbs in base 10^4, limb 1 the (signed)   *)
(* integer part, limbs 2.. the fractional digits, each in 0..Base-1, so    *)
(* that every number has one representation and = is numeric equality.     *)
(* IEEE rounding is not modelled; NaN is the empty sequence.               *)
(* Python indices are 0-based; At(s, i) reads s[i] of the source.          *)
(***************************************************************************)
EXTENDS Integers, Sequences, FiniteSets, TLC

\* Longest trajectory (and longest input of compute_advantages) explored.
MaxLen == 3
\* Largest max_episodes explored by the training loop.
MaxEpisodes == 2
\* Largest max_episodes explored when update_entropy_coef is called alone.
MaxSchedule == 8

\* self.gamma = 0.99 and self.gaelam = 0.95, in units of 10^-4.
Gamma == 9900
Gaelam == 9500
\* self.min_entropy = 0.0001 and self.max_entropy = 0.01, in units of 10^-4.
MinEntropy == 1
MaxEntropy == 100

Base == 100 * 100
NLimbs == 2 * MaxLen + 2

VARIABLES
    pc,             \* position of the control flow
    err,            \* the exception that ended the run, "" if none
    max_episodes,   \* argument of train
    episode,        \* loop variable of train
    state,          \* current state of the rollout
    next_state,     \* last state returned by env.step
    done,           \* last done flag returned by env.step
    states,         \* per-episode lists of train
    actions,
    raw_actions,
    probs,
    rewards,
    dones,
    values,         \* values_learned in train, values in compute_advantages
    episode_reward,
    boot_arg,       \* the state handed to the critic for the bootstrap value
    t,              \* loop variable of compute_advantages
    last_gae,
    advantages,
    returns,
    entropy_coef,
    actor_steps,    \* number of actor_optimizer.apply_gradients calls
    critic_steps,   \* number of critic_optimizer.apply_gradients calls
    saves           \* number of actor.save calls

vars == <<pc, err, max_episodes, episode, state, next_state, done, states,
          actions, raw_actions, probs, rewards, dones, values, episode_reward,
          boot_arg, t, last_gae, advantages, returns, entropy_coef,
          actor_steps, critic_steps, saves>>

------------------------------------------------------------------------------
(* Python float / numpy arithmetic *)

NaN == <<>>
IsNaN(a) == Len(a) = 0

Frac(n, f) == [i \in 1..NLimbs |-> IF i = 1 THEN n ELSE IF i = 2 THEN f ELSE 0]
FromInt(n) == Frac(n, 0)
Zero == FromInt(0)

RECURSIVE Carry(_, _, _)
Carry(raw, i, c) ==
    IF i = 1 THEN [raw EXCEPT ![1] = raw[1] + c]
    ELSE LET v == raw[i] + c
         IN  Carry([raw EXCEPT ![i] = v % Base], i - 1, v \div Base)

Norm(raw) == Carry(raw, NLimbs, 0)

\* a + b
FAdd(a, b) ==
    IF IsNaN(a) \/ IsNaN(b) THEN NaN
    ELSE Norm([i \in 1..NLimbs |-> a[i] + b[i]])

\* a - b
FSub(a, b) ==
    IF IsNaN(a) \/ IsNaN(b) THEN NaN
    ELSE Norm([i \in 1..NLimbs |-> a[i] - b[i]])

\* a * n for an integer n (NaN * 0 is NaN)
FMulInt(a, n) ==
    IF IsNaN(a) THEN NaN
    ELSE Norm([i \in 1..NLimbs |-> a[i] * n])

\* (m / 10^4) * a for a coefficient 0 <= m < 10^4
FMulCoef(m, a) ==
    IF IsNaN(a) THEN NaN
    ELSE Norm([i \in 1..NLimbs |-> IF i = 1 THEN 0 ELSE a[i - 1] * m])

\* The value numpy stores when a float is assigned to an int64 element:
\* the C cast, which truncates toward zero.
IntCast(a) ==
    IF a[1] < 0 /\ (\E i \in 2..NLimbs : a[i] # 0)
    THEN FromInt(a[1] + 1)
    ELSE FromInt(a[1])

At(s, i) == s[i + 1]
SetAt(s, i, v) == [s EXCEPT ![i + 1] = v]

------------------------------------------------------------------------------
(* compute_advantages *)

\* dtype of np.zeros_like(rewards) for a list of Python numbers: int64 when
\* every entry is a Python int, float64 otherwise (and for an empty list).
ZerosLikeDtype(rs) ==
    IF Len(rs) > 0 /\ (\A i \in 1..Len(rs) : rs[i].int) THEN "int64" ELSE "float64"

\* arr[i] = x : what the element holds afterwards.
Stored(dtype, x) == IF dtype = "int64" THEN IntCast(x) ELSE x

\* Assigning a float NaN to an int64 element raises ValueError.
StoreRaises(dtype, x) == dtype = "int64" /\ IsNaN(x)

OneMinus(d) == IF d THEN 0 ELSE 1

\* One iteration of the reverse loop, lines 144-159, on the record
\* g = [t, last_gae, advantages, returns, raised].
GaeIter(rs, vs, ds, g) ==
    LET T == Len(rs)
        dtype == ZerosLikeDtype(rs)
        next_value == IF g.t = T - 1 THEN vs[Len(vs)] ELSE At(vs, g.t + 1)
        next_done == IF g.t = T - 1 THEN At(ds, g.t) ELSE At(ds, g.t + 1)
        delta == FSub(FAdd(At(rs, g.t).val,
                           FMulInt(FMulCoef(Gamma, next_value), OneMinus(next_done))),
                      At(vs, g.t))
        gae == FAdd(delta,
                    FMulInt(FMulCoef(Gaelam, FMulCoef(Gamma, g.last_gae)),
                            OneMinus(next_done)))
        adv == SetAt(g.advantages, g.t, Stored(dtype, gae))
        ret == FAdd(At(adv, g.t), At(vs, g.t))
    IN  IF StoreRaises(dtype, gae)
        THEN [g EXCEPT !.raised = TRUE]
        ELSE IF StoreRaises(dtype, ret)
        THEN [g EXCEPT !.last_gae = gae, !.advantages = adv, !.raised = TRUE]
        ELSE [t |-> g.t - 1,
              last_gae |-> gae,
              advantages |-> adv,
              returns |-> SetAt(g.returns, g.t, Stored(dtype, ret)),
              raised |-> FALSE]

\* Lines 140-143.
GaeStart(rs) ==
    [t |-> Len(rs) - 1,
     last_gae |-> Zero,
     advantages |-> [i \in 1..Len(rs) |-> Zero],
     returns |-> [i \in 1..Len(rs) |-> Zero],
     raised |-> FALSE]

\* The whole loop.
RECURSIVE GaeLoop(_, _, _, _)
GaeLoop(rs, vs, ds, g) ==
    IF g.t < 0 \/ g.raised THEN g ELSE GaeLoop(rs, vs, ds, GaeIter(rs, vs, ds, g))

RECURSIVE SumSeq(_, _)
SumSeq(s, n) == IF n = 0 THEN Zero ELSE FAdd(SumSeq(s, n - 1), s[n])

\* Line 162, (advantages - mean) / (std + 1e-8).  The square root is not
\* representable: each entry is kept as the exact numerator
\* T * advantages[i] - sum(advantages); the common positive divisor
\* T * (std + 1e-8) stays symbolic.
Normalize(adv) ==
    [i \in 1..Len(adv) |-> FSub(FMulInt(adv[i], Len(adv)), SumSeq(adv, Len(adv)))]

------------------------------------------------------------------------------
(* update_entropy_coef *)

Min2(a, b) == IF a < b THEN a ELSE b
Max2(a, b) == IF a > b THEN a ELSE b

\* np.clip(x, lo, hi)
Clip(x, lo, hi) == Min2(Max2(x, lo), hi)

\* update_entropy_coef without the np.clip of line 123.
update_entropy_coef_NoClip(e, M) ==
    [num |-> MaxEntropy * M - (MaxEntropy - MinEntropy) * e,
     den |-> M]

\* Lines 122-124.  The result is the rational num / den in units of 10^-4,
\* with den = max_episodes, so that episode / max_episodes is exact.
update_entropy_coef(e, M) ==
    [num |-> Clip(MaxEntropy * M - (MaxEntropy - MinEntropy) * e,
                  MinEntropy * M, MaxEntropy * M),
     den |-> M]

------------------------------------------------------------------------------
(* Collaborators: environment, actor, critic *)

\* Rewards env.step may return: Python ints 0 and 1, and the float 0.5.
RewardSet ==
    {[int |-> TRUE, val |-> FromInt(0)],
     [int |-> TRUE, val |-> FromInt(1)],
     [int |-> FALSE, val |-> Frac(0, 5000)]}

\* Estimates the critic may return for a finite state: 0.0 and 0.5.
ValueSet == {Zero, Frac(0, 5000)}

\* self.critic.call(s): a forward pass on a non-finite state yields NaN.
CriticValues(s) == IF s.finite THEN ValueSet ELSE {NaN}

\* self.env.reset()
ResetState == [step |-> 0, finite |-> TRUE]

------------------------------------------------------------------------------
(* train *)

\* Lines 215-222: the next iteration of `for episode in range(max_episodes)`.
Reset ==
    /\ pc = "episode"
    /\ episode < max_episodes
    /\ state' = ResetState
    /\ episode_reward' = Zero
    /\ done' = FALSE
    /\ states' = <<>>
    /\ actions' = <<>>
    /\ rewards' = <<>>
    /\ dones' = <<>>
    /\ probs' = <<>>
    /\ raw_actions' = <<>>
    /\ values' = <<>>
    /\ pc' = "rollout"
    /\ UNCHANGED <<err, max_episodes, episode, next_state, boot_arg, t, last_gae,
                   advantages, returns, entropy_coef, actor_steps, critic_steps,
                   saves>>

\* Lines 242-248: the transition is appended to the lists.
Record(r, d, v) ==
    /\ states' = Append(states, state)
    /\ actions' = Append(actions, Len(actions))
    /\ rewards' = Append(rewards, r)
    /\ dones' = Append(dones, d)
    /\ probs' = Append(probs, Len(probs))
    /\ values' = Append(values, v)
    /\ raw_actions' = Append(raw_actions, Len(raw_actions))

\* RolloutStep with the NaN test moved below the appends: the step that
\* returned the NaN state is recorded before the loop is left.
RolloutStep_RecordsBeforeCheck ==
    /\ pc = "rollout"
    /\ \E r \in RewardSet, d \in BOOLEAN, nan \in BOOLEAN, v \in CriticValues(state) :
        /\ (Len(rewards) + 1 >= MaxLen) => (d \/ nan)
        /\ next_state' = [step |-> state.step + 1, finite |-> ~nan]
        /\ done' = d
        /\ Record(r, d, v)
        /\ IF nan
           THEN /\ pc' = "bootstrap"
                /\ UNCHANGED <<state, episode_reward>>
           ELSE /\ state' = next_state'
                /\ episode_reward' = FAdd(episode_reward, r.val)
                /\ pc' = IF d THEN "bootstrap" ELSE "rollout"
    /\ UNCHANGED <<err, max_episodes, episode, boot_arg, t, last_gae, advantages,
                   returns, entropy_coef, actor_steps, critic_steps, saves>>

\* Lines 224-253: one iteration of `while not done`.  The environment is
\* made to end the episode (done or a NaN state) by step MaxLen.
RolloutStep ==
    /\ pc = "rollout"
    /\ \E r \in RewardSet, d \in BOOLEAN, nan \in BOOLEAN, v \in CriticValues(state) :
        /\ (Len(rewards) + 1 >= MaxLen) => (d \/ nan)
        /\ next_state' = [step |-> state.step + 1, finite |-> ~nan]
        /\ done' = d
        /\ IF nan
           THEN /\ pc' = "bootstrap"
                /\ UNCHANGED <<state, states, actions, rewards, dones, probs,
                               values, raw_actions, episode_reward>>
           ELSE /\ Record(r, d, v)
                /\ state' = next_state'
                /\ episode_reward' = FAdd(episode_reward, r.val)
                /\ pc' = IF d THEN "bootstrap" ELSE "rollout"
    /\ UNCHANGED <<err, max_episodes, episode, boot_arg, t, last_gae, advantages,
                   returns, entropy_coef, actor_steps, critic_steps, saves>>

\* Lines 260-263.
Bootstrap ==
    /\ pc = "bootstrap"
    /\ boot_arg' = next_state
    /\ \E v \in CriticValues(next_state) : values' = Append(values, v)
    /\ pc' = "advantages"
    /\ UNCHANGED <<err, max_episodes, episode, state, next_state, done, states,
                   actions, raw_actions, probs, rewards, dones, episode_reward, t,
                   last_gae, advantages, returns, entropy_coef, actor_steps,
                   critic_steps, saves>>

\* Lines 140-143: entry of compute_advantages(rewards, values_learned, dones).
ComputeAdvantagesBegin ==
    /\ pc = "advantages"
    /\ LET g == GaeStart(rewards)
       IN  /\ t' = g.t
           /\ last_gae' = g.last_gae
           /\ advantages' = g.advantages
           /\ returns' = g.returns
    /\ pc' = "gae_loop"
    /\ UNCHANGED <<err, max_episodes, episode, state, next_state, done, states,
                   actions, raw_actions, probs, rewards, dones, values,
                   episode_reward, boot_arg, entropy_coef, actor_steps,
                   critic_steps, saves>>

\* Lines 144-159: one iteration of `for t in reversed(range(len(rewards)))`.
GaeStep ==
    /\ pc = "gae_loop"
    /\ t >= 0
    /\ LET g == GaeIter(rewards, values, dones,
                        [t |-> t, last_gae |-> last_gae, advantages |-> advantages,
                         returns |-> returns, raised |-> FALSE])
       IN  /\ t' = g.t
           /\ last_gae' = g.last_gae
           /\ advantages' = g.advantages
           /\ returns' = g.returns
           /\ pc' = IF g.raised THEN "error" ELSE "gae_loop"
           /\ err' = IF g.raised THEN "ValueError" ELSE err
    /\ UNCHANGED <<max_episodes, episode, state, next_state, done, states, actions,
                   raw_actions, probs, rewards, dones, values, episode_reward,
                   boot_arg, entropy_coef, actor_steps, critic_steps, saves>>

\* Lines 162-169: normalization and return to line 271.
GaeNormalize ==
    /\ pc = "gae_loop"
    /\ t < 0
    /\ advantages' = Normalize(advantages)
    /\ pc' = "entropy"
    /\ UNCHANGED <<err, max_episodes, episode, state, next_state, done, states,
                   actions, raw_actions, probs, rewards, dones, values,
                   episode_reward, boot_arg, t, last_gae, returns, entropy_coef,
                   actor_steps, critic_steps, saves>>

\* Line 272.
EntropyCoef ==
    /\ pc = "entropy"
    /\ entropy_coef' = update_entropy_coef(episode, max_episodes)
    /\ pc' = "update"
    /\ UNCHANGED <<err, max_episodes, episode, state, next_state, done, states,
                   actions, raw_actions, probs, rewards, dones, values,
                   episode_reward, boot_arg, t, last_gae, advantages, returns,
                   actor_steps, critic_steps, saves>>

\* ActorUpdate with check_numerics placed after apply_gradients: the actor
\* has stepped when the numeric failure is raised.
ActorUpdate_ChecksAfterStep ==
    /\ pc = "update"
    /\ \E log_probs_finite \in BOOLEAN, ratios_finite \in BOOLEAN :
        IF Len(states) = 0
        THEN /\ pc' = "error"
             /\ err' = "ValueError"
             /\ UNCHANGED actor_steps
        ELSE IF ~log_probs_finite \/ ~ratios_finite
        THEN /\ pc' = "error"
             /\ err' = "InvalidArgumentError"
             /\ actor_steps' = actor_steps + 1
        ELSE /\ actor_steps' = actor_steps + 1
             /\ pc' = "critic_update"
             /\ UNCHANGED err
    /\ UNCHANGED <<max_episodes, episode, state, next_state, done, states, actions,
                   raw_actions, probs, rewards, dones, values, episode_reward,
                   boot_arg, t, last_gae, advantages, returns, entropy_coef,
                   critic_steps, saves>>

\* Line 274 and lines 173-197: np.vstack(states) raises ValueError on an empty
\* list; check_numerics raises InvalidArgumentError on a non-finite
\* log-probability or ratio; otherwise one actor gradient step is applied.
ActorUpdate ==
    /\ pc = "update"
    /\ \E log_probs_finite \in BOOLEAN, ratios_finite \in BOOLEAN :
        IF Len(states) = 0
        THEN /\ pc' = "error"
             /\ err' = "ValueError"
             /\ UNCHANGED actor_steps
        ELSE IF ~log_probs_finite \/ ~ratios_finite
        THEN /\ pc' = "error"
             /\ err' = "InvalidArgumentError"
             /\ UNCHANGED actor_steps
        ELSE /\ actor_steps' = actor_steps + 1
             /\ pc' = "critic_update"
             /\ UNCHANGED err
    /\ UNCHANGED <<max_episodes, episode, state, next_state, done, states, actions,
                   raw_actions, probs, rewards, dones, values, episode_reward,
                   boot_arg, t, last_gae, advantages, returns, entropy_coef,
                   critic_steps, saves>>

\* The locals of a finished iteration of the episode loop are dead, each is
\* assigned again before it is read, and are dropped.
DropLocals ==
    /\ state' = ResetState
    /\ next_state' = ResetState
    /\ boot_arg' = ResetState
    /\ done' = FALSE
    /\ states' = <<>>
    /\ actions' = <<>>
    /\ raw_actions' = <<>>
    /\ probs' = <<>>
    /\ rewards' = <<>>
    /\ dones' = <<>>
    /\ values' = <<>>
    /\ episode_reward' = Zero
    /\ t' = 0
    /\ last_gae' = Zero
    /\ advantages' = <<>>
    /\ returns' = <<>>

\* CriticUpdate with the value regression run for two gradient steps on the
\* same rollout.
CriticUpdate_TwoSteps ==
    /\ pc = "critic_update"
    /\ critic_steps' = critic_steps + 2
    /\ episode' = episode + 1
    /\ pc' = "episode"
    /\ DropLocals
    /\ UNCHANGED <<err, max_episodes, entropy_coef, actor_steps, saves>>

\* Lines 199-206 and the end of the loop body, lines 276-292 (the reward
\* log and the plot are bookkeeping and are not modelled).
CriticUpdate ==
    /\ pc = "critic_update"
    /\ critic_steps' = critic_steps + 1
    /\ episode' = episode + 1
    /\ pc' = "episode"
    /\ DropLocals
    /\ UNCHANGED <<err, max_episodes, entropy_coef, actor_steps, saves>>

\* Line 296, reached when range(max_episodes) is exhausted.
Save ==
    /\ pc = "episode"
    /\ episode >= max_episodes
    /\ saves' = saves + 1
    /\ pc' = "done"
    /\ UNCHANGED <<err, max_episodes, episode, state, next_state, done, states,
                   actions, raw_actions, probs, rewards, dones, values,
                   episode_reward, boot_arg, t, last_gae, advantages, returns,
                   entropy_coef, actor_steps, critic_steps>>

------------------------------------------------------------------------------
(* Specifications *)

\* Values of the locals before their first assignment.
Blank ==
    /\ err = ""
    /\ state = ResetState
    /\ next_state = ResetState
    /\ boot_arg = ResetState
    /\ done = FALSE
    /\ states = <<>>
    /\ actions = <<>>
    /\ raw_actions = <<>>
    /\ probs = <<>>
    /\ episode_reward = Zero
    /\ t = 0
    /\ last_gae = Zero
    /\ advantages = <<>>
    /\ returns = <<>>
    /\ entropy_coef = [num |-> 0, den |-> 1]
    /\ actor_steps = 0
    /\ critic_steps = 0
    /\ saves = 0

\* agent.train(max_episodes)
Init ==
    /\ Blank
    /\ pc = "episode"
    /\ max_episodes \in 0..MaxEpisodes
    /\ episode = 0
    /\ rewards = <<>>
    /\ dones = <<>>
    /\ values = <<>>

Next ==
    \/ Reset
    \/ RolloutStep
    \/ Bootstrap
    \/ ComputeAdvantagesBegin
    \/ GaeStep
    \/ GaeNormalize
    \/ EntropyCoef
    \/ ActorUpdate
    \/ CriticUpdate
    \/ Save

Spec == Init /\ [][Next]_vars

\* agent.compute_advantages(rewards, values, dones) on arbitrary finite
\* inputs of length T, T + 1 and T, 1 <= T <= MaxLen.
InitGAE ==
    /\ Blank
    /\ pc = "advantages"
    /\ max_episodes = 1
    /\ episode = 0
    /\ \E T \in 1..MaxLen :
        /\ rewards \in [1..T -> RewardSet]
        /\ dones \in [1..T -> BOOLEAN]
        /\ values \in [1..(T + 1) -> ValueSet]

NextGAE ==
    \/ ComputeAdvantagesBegin
    \/ GaeStep
    \/ GaeNormalize

SpecGAE == InitGAE /\ [][NextGAE]_vars

\* agent.update_entropy_coef(episode, max_episodes) for any episode >= 0
\* and max_episodes >= 1 within the bound.
InitEntropy ==
    /\ Blank
    /\ pc = "entropy"
    /\ max_episodes \in 1..MaxSchedule
    /\ episode \in 0..(2 * MaxSchedule)
    /\ rewards = <<>>
    /\ dones = <<>>
    /\ values = <<>>

NextEntropy == EntropyCoef

SpecEntropy == InitEntropy /\ [][NextEntropy]_vars

------------------------------------------------------------------------------
(* Properties of compute_advantages, checked under SpecGAE *)

\* The reverse loop has finished and the advantages are not yet normalized.
LoopDone == pc = "gae_loop" /\ t < 0

\* The recursion of the specification, in exact arithmetic:
\* advantage[T] = 0, advantage[i] = delta + gamma * lambda * (1 - nextDone) *
\* advantage[i + 1].
RECURSIVE RefAdv(_, _, _, _)
RefAdv(rs, vs, ds, i) ==
    IF i >= Len(rs) THEN Zero
    ELSE LET T == Len(rs)
             nextValue == IF i = T - 1 THEN At(vs, T) ELSE At(vs, i + 1)
             nextDone == IF i = T - 1 THEN At(ds, T - 1) ELSE At(ds, i + 1)
             delta == FSub(FAdd(At(rs, i).val,
                                FMulInt(FMulCoef(Gamma, nextValue), OneMinus(nextDone))),
                           At(vs, i))
         IN  FAdd(delta,
                  FMulInt(FMulCoef(Gaelam, FMulCoef(Gamma, RefAdv(rs, vs, ds, i + 1))),
                          OneMinus(nextDone)))

\* The worked example: rewards = [1, 1, 1], values = [0, 0, 0, 0],
\* dones = [0, 0, 1].
IsWorkedExample ==
    /\ rewards = <<[int |-> TRUE, val |-> FromInt(1)],
                   [int |-> TRUE, val |-> FromInt(1)],
                   [int |-> TRUE, val |-> FromInt(1)]>>
    /\ values = <<Zero, Zero, Zero, Zero>>
    /\ dones = <<FALSE, FALSE, TRUE>>

\* C1: for every input, and whatever the numeric type of the reward entries,
\* the advantages compute_advantages holds before normalization are exactly
\* the values of the specification's reverse recursion; on the worked example
\* they are 1.9405, 1 and 1.
C1_AdvantagesFollowRecursion ==
    LoopDone =>
        /\ \A i \in 0..(Len(rewards) - 1) :
               At(advantages, i) = RefAdv(rewards, values, dones, i)
        /\ IsWorkedExample =>
               advantages = <<Frac(1, 9405), FromInt(1), FromInt(1)>>

\* C6: return[t] = advantage[t] + values[t] for every t, advantage[t] being the
\* value held before normalization, and the returns emitted after the
\* normalization are these same values.
C6_ReturnIsAdvantagePlusValue ==
    /\ LoopDone =>
           \A i \in 0..(Len(rewards) - 1) :
               At(returns, i) = FAdd(At(advantages, i), At(values, i))
    /\ pc = "entropy" =>
           \A i \in 0..(Len(rewards) - 1) :
               At(returns, i) = FAdd(RefAdv(rewards, values, dones, i), At(values, i))

\* rewards[T-1], values[T-1] and values[T] replaced by r, v1 and v2.
WithTail(rs, vs, r, v1, v2) ==
    [rewards |-> [rs EXCEPT ![Len(rs)] = r],
     values |-> [vs EXCEPT ![Len(rs)] = v1, ![Len(rs) + 1] = v2]]

\* C10: when T >= 2, dones[T-1] is true and the earlier flags are false,
\* advantage[T-2] = rewards[T-2] - values[T-2], and advantage[t] and return[t]
\* for t < T-1 are the same for every choice of rewards[T-1], values[T-1] and
\* values[T] (the replacement reward being of the same numeric type).
C10_TerminalStepNotPropagated ==
    LET T == Len(rewards)
    IN  ( /\ LoopDone
          /\ T >= 2
          /\ At(dones, T - 1)
          /\ \A i \in 0..(T - 2) : ~At(dones, i) ) =>
        /\ At(advantages, T - 2) = FSub(At(rewards, T - 2).val, At(values, T - 2))
        /\ \A r \in {x \in RewardSet : x.int = At(rewards, T - 1).int},
              v1 \in ValueSet, v2 \in ValueSet :
               LET in2 == WithTail(rewards, values, r, v1, v2)
                   g2 == GaeLoop(in2.rewards, in2.values, dones, GaeStart(in2.rewards))
               IN  \A i \in 0..(T - 2) :
                       /\ At(g2.advantages, i) = At(advantages, i)
                       /\ At(g2.returns, i) = At(returns, i)

------------------------------------------------------------------------------
(* Properties of update_entropy_coef, checked under SpecEntropy *)

------------------------------------------------------------------------------
(* Properties of train, checked under Spec *)

\* The rollout of the current episode is over and its lists are in use.
Handed == pc \in {"advantages", "gae_loop", "entropy", "update", "critic_update"}

\* The rollout left the loop through the break of line 232.
NanAbort == ~next_state.finite

\* C2: when check_numerics rejects the log-probabilities or the ratios, the
\* run stops there: neither optimizer has stepped in that episode, nothing
\* was saved, and no further step of train is taken.
C2_NumericFailureStopsRun ==
    err = "InvalidArgumentError" =>
        /\ pc = "error"
        /\ episode < max_episodes
        /\ actor_steps = episode
        /\ critic_steps = episode
        /\ saves = 0
        /\ ~ENABLED Next

\* check_numerics failed in an episode after a completed one.
C2_Witness ==
    /\ err = "InvalidArgumentError"
    /\ episode >= 1
    /\ Len(states) >= 2

\* C3: a NaN next-state at any step, the first included, only truncates the
\* episode: the transitions recorded so far are kept and handed on, and the
\* run goes on to the next episode, so no exception other than the numeric
\* failure of update ends a run whose rollout was aborted.
C3_NanAbortContinues ==
    /\ (NanAbort /\ pc = "error") => err = "InvalidArgumentError"
    /\ (NanAbort /\ Handed) => Len(rewards) = state.step

\* The successors of a pc value in a run without exception.
PcOrder ==
    {<<"episode", "rollout">>, <<"rollout", "bootstrap">>,
     <<"bootstrap", "advantages">>, <<"advantages", "gae_loop">>,
     <<"gae_loop", "entropy">>, <<"entropy", "update">>,
     <<"update", "critic_update">>, <<"critic_update", "episode">>,
     <<"episode", "done">>}

C4_Counts ==
    /\ pc \in {"episode", "rollout", "bootstrap", "advantages", "gae_loop",
               "entropy", "update"} =>
           (actor_steps = episode /\ critic_steps = episode)
    /\ pc = "critic_update" => (actor_steps = episode + 1 /\ critic_steps = episode)
    /\ pc = "done" =>
           /\ episode = max_episodes
           /\ actor_steps = max_episodes
           /\ critic_steps = max_episodes
           /\ saves = 1
    /\ pc # "done" => saves = 0

\* C4: while no exception is raised, the steps of an episode come in the
\* order reset, rollout, bootstrap, advantages, entropy coefficient, policy
\* step, value step; every episode applies one policy step and then one
\* value step; an episode starts only after the previous value step; and the
\* policy is saved once, after the last episode.
C4_EpisodeOrder ==
    /\ [](pc # "error" => C4_Counts)
    /\ [][(pc' # pc /\ pc' # "error") => <<pc, pc'>> \in PcOrder]_vars

\* A run of at least two episodes has ended and saved the policy.
C4_Witness ==
    /\ pc = "done"
    /\ max_episodes >= 2
    /\ saves = 1

\* C5: the state whose estimate is appended as the bootstrap value is the
\* current state left by the loop, the successor of the last recorded
\* transition, and it is finite.
C5_BootstrapOfLastRecordedState ==
    Handed =>
        /\ boot_arg = state
        /\ boot_arg.step = Len(rewards)
        /\ boot_arg.finite

\* C8: the trajectory handed to compute_advantages and update has length
\* T >= 1, the value sequence has length T + 1, the six lists have length T,
\* and so have the advantages and returns produced.
C8_TrajectoryLengths ==
    Handed =>
        /\ Len(rewards) >= 1
        /\ Len(values) = Len(rewards) + 1
        /\ Len(states) = Len(rewards)
        /\ Len(actions) = Len(rewards)
        /\ Len(raw_actions) = Len(rewards)
        /\ Len(probs) = Len(rewards)
        /\ Len(dones) = Len(rewards)
        /\ pc # "advantages" =>
               (Len(advantages) = Len(rewards) /\ Len(returns) = Len(rewards))

\* C9: in the trajectory handed to compute_advantages every done flag but
\* the last is false, and the last one is true exactly when the loop ended
\* on the environment's done rather than on the NaN break.
C9_DoneOnlyAtEnd ==
    Handed =>
        /\ \A i \in 0..(Len(dones) - 2) : ~At(dones, i)
        /\ Len(dones) >= 1 => (At(dones, Len(dones) - 1) <=> ~NanAbort)

\* A rollout of two recorded steps was aborted by a NaN state that came
\* together with done = true.
C9_Witness ==
    /\ pc = "advantages"
    /\ NanAbort
    /\ done
    /\ Len(dones) >= 2

====
